---- MODULE Spec2Model ----
(***************************************************************************)
(* Model of Cost_Estimator.py: the twelve-month projection of compute,     *)
(* storage and data-transfer cost, the optimized scenario and the savings. *)
(*                                                                         *)
(* The script runs top to bottom once per set of widget values.  The       *)
(* widget values are the inputs (drawn in Init from the widgets' ranges),  *)
(* and each statement group of the script is one action, sequenced by pc.  *)
(*                                                                         *)
(* Python's float arithmetic is modelled as exact decimal arithmetic: a    *)
(* number is a sign, a mantissa (limbs of four decimal digits, lowest       *)
(* first) and the number of limbs after the decimal point.  Every          *)
(* factor of the script is a decimal fraction, so +, - and * are exact;    *)
(* the one true division (savings_pct) is kept as a quotient num/den.      *)
(***************************************************************************)
EXTENDS Integers, Sequences, FiniteSets

\* ------------------------------------------------------------------------
\* Magnitudes: sequences of limbs 0..Radix-1, lowest limb first
\* ------------------------------------------------------------------------
Radix == 100 * 100

RECURSIVE StripHigh(_)
StripHigh(ds) ==
    IF ds = <<>> THEN <<>>
    ELSE IF ds[Len(ds)] = 0 THEN StripHigh(SubSeq(ds, 1, Len(ds) - 1))
    ELSE ds

RECURSIVE NatLimbs(_)
NatLimbs(n) ==
    IF n = 0 THEN <<>> ELSE <<n % Radix>> \o NatLimbs(n \div Radix)

\* ds * p + carry for a limb p
RECURSIVE MulSmall(_, _, _)
MulSmall(ds, p, carry) ==
    IF ds = <<>> THEN NatLimbs(carry)
    ELSE LET v == Head(ds) * p + carry
         IN  <<v % Radix>> \o MulSmall(Tail(ds), p, v \div Radix)

RestOf(ds) ==
    IF ds = <<>> THEN <<>> ELSE Tail(ds)

FirstOf(ds) ==
    IF ds = <<>> THEN 0 ELSE Head(ds)

RECURSIVE AddMag(_, _, _)
AddMag(a, b, carry) ==
    IF a = <<>> /\ b = <<>> THEN NatLimbs(carry)
    ELSE LET v == FirstOf(a) + FirstOf(b) + carry
         IN  <<v % Radix>> \o AddMag(RestOf(a), RestOf(b), v \div Radix)

\* a - b - borrow for a >= b
RECURSIVE SubMag(_, _, _)
SubMag(a, b, borrow) ==
    IF a = <<>> THEN <<>>
    ELSE LET v == Head(a) - FirstOf(b) - borrow
         IN  IF v < 0 THEN <<v + Radix>> \o SubMag(Tail(a), RestOf(b), 1)
             ELSE <<v>> \o SubMag(Tail(a), RestOf(b), 0)

RECURSIVE CmpFrom(_, _, _)
CmpFrom(a, b, i) ==
    IF i = 0 THEN 0
    ELSE IF a[i] > b[i] THEN 1
    ELSE IF a[i] < b[i] THEN -1
    ELSE CmpFrom(a, b, i - 1)

\* -1, 0, 1 for two magnitudes without high zeros
CmpMag(a, b) ==
    IF Len(a) > Len(b) THEN 1
    ELSE IF Len(a) < Len(b) THEN -1
    ELSE CmpFrom(a, b, Len(a))

RECURSIVE MulMag(_, _)
MulMag(a, b) ==
    IF b = <<>> THEN <<>>
    ELSE AddMag(MulSmall(a, Head(b), 0), <<0>> \o MulMag(a, Tail(b)), 0)

\* ------------------------------------------------------------------------
\* Exact decimals: [neg, d, e] is (-1)^neg * d / Radix^e, kept canonical
\* (no high zero limb, no low zero limb while e > 0, zero is Zero)
\* ------------------------------------------------------------------------
Zero == [neg |-> FALSE, d |-> <<>>, e |-> 0]

RECURSIVE StripLow(_, _, _)
StripLow(neg, ds, e) ==
    IF e > 0 /\ ds[1] = 0 THEN StripLow(neg, Tail(ds), e - 1)
    ELSE [neg |-> neg, d |-> ds, e |-> e]

DNorm(neg, ds, e) ==
    LET hs == StripHigh(ds)
    IN  IF hs = <<>> THEN Zero ELSE StripLow(neg, hs, e)

\* the integer n
DInt(n) ==
    IF n < 0 THEN DNorm(TRUE, NatLimbs(-n), 0) ELSE DNorm(FALSE, NatLimbs(n), 0)

\* n / 100 for an integer n: the script's pct / 100 and its literals 0.70, 0.05
Hundredths(n) ==
    IF n < 0 THEN DNorm(TRUE, NatLimbs(-n * 100), 1)
    ELSE DNorm(FALSE, NatLimbs(n * 100), 1)

Align(x, E) == [i \in 1..(E - x.e) |-> 0] \o x.d

DNeg(x) ==
    IF x.d = <<>> THEN x ELSE [x EXCEPT !.neg = ~x.neg]

DAdd(x, y) ==
    LET E == IF x.e > y.e THEN x.e ELSE y.e
        a == Align(x, E)
        b == Align(y, E)
        c == CmpMag(a, b)
    IN  IF x.neg = y.neg THEN DNorm(x.neg, AddMag(a, b, 0), E)
        ELSE IF c = 0 THEN Zero
        ELSE IF c > 0 THEN DNorm(x.neg, SubMag(a, b, 0), E)
        ELSE DNorm(y.neg, SubMag(b, a, 0), E)

DSub(x, y) == DAdd(x, DNeg(y))

DMul(x, y) ==
    DNorm(x.neg # y.neg,
          IF Len(y.d) <= Len(x.d) THEN MulMag(x.d, y.d) ELSE MulMag(y.d, x.d),
          x.e + y.e)

DLess(x, y) == DSub(x, y).neg

DLeq(x, y) == ~DLess(y, x)

\* Python's min(a, b)
DMin(x, y) == IF DLess(y, x) THEN y ELSE x

RECURSIVE DSum(_)
DSum(xs) ==
    IF xs = <<>> THEN Zero ELSE DAdd(DSum(SubSeq(xs, 1, Len(xs) - 1)), xs[Len(xs)])

\* numpy's elementwise a + b
VecAdd(a, b) == [i \in 1..Len(a) |-> DAdd(a[i], b[i])]

\* a true division kept as the quotient num/den
Quot(x, y) == [num |-> x, den |-> y]

QuotMul(q, x) == [num |-> DMul(q.num, x), den |-> q.den]

\* ------------------------------------------------------------------------
\* Sidebar inputs (lines 15-41) and the input values explored
\* ------------------------------------------------------------------------
VARIABLES use_gen2, num_vws, vw_size, hours_per_day, active_days_per_month,
          compute_growth, storage_tb, storage_growth, data_transfer_tb,
          transfer_growth, discount_pct, pause_hours_per_day, reduce_vw_size,
          additional_discount

inputs == <<use_gen2, num_vws, vw_size, hours_per_day, active_days_per_month,
            compute_growth, storage_tb, storage_growth, data_transfer_tb,
            transfer_growth, discount_pct, pause_hours_per_day, reduce_vw_size,
            additional_discount>>

\* Script state: the names the script binds, the loop index and the position
VARIABLES pc, month, base_credits, compute_costs, storage_costs, transfer_costs,
          storage_current, transfer_current, total_costs, total_annual_cost,
          optimized_size_credit, effective_hours, base_credits_opt,
          optimized_compute_costs, storage_current_opt, transfer_current_opt,
          total_discount_opt, optimized_storage_costs, optimized_transfer_costs,
          total_optimized_costs, total_optimized_annual, total_savings,
          savings_pct

baseline_vars == <<base_credits, compute_costs, storage_costs, transfer_costs,
                   storage_current, transfer_current>>

baseline_total_vars == <<total_costs, total_annual_cost>>

optimized_loop_vars == <<effective_hours, base_credits_opt,
                         optimized_compute_costs>>

optimized_level_vars == <<storage_current_opt, transfer_current_opt>>

optimized_discount_vars == <<total_discount_opt, optimized_storage_costs,
                             optimized_transfer_costs>>

optimized_total_vars == <<total_optimized_costs, total_optimized_annual>>

savings_vars == <<total_savings, savings_pct>>

vars == <<inputs, pc, month, baseline_vars, baseline_total_vars,
          optimized_size_credit, optimized_loop_vars, optimized_level_vars,
          optimized_discount_vars, optimized_total_vars, savings_vars>>

\* Largest warehouse count explored (the widget of line 18 has no upper limit)
MaxWarehouses == 6

\* range(12), lines 62 and 100
NUM_MONTHS == 12

\* Widget limits: min_value of line 18, the sliders of lines 24-35 and 41,
\* max_value of line 39
MIN_VWS == 1

MAX_GROWTH == 20

MAX_DISCOUNT == 50

MAX_PAUSE_HOURS == 24

\* The options of the select box of line 19, the keys of line 47
WarehouseSizes == {"X-Small", "Small", "Medium", "Large", "X-Large"}

\* The widget values explored, each within its widget's range
NumVwsValues == {MIN_VWS, 2, 5, MaxWarehouses}

VwSizeValues == {"X-Small", "Medium"}

ReduceVwSizeValues == {"Same", "Small"}

HoursValues == {4, 10}

ActiveDaysValues == {20}

ComputeGrowthValues == {0, 5}

StorageTbValues == {DInt(5)}

StorageGrowthValues == {2}

TransferTbValues == {DInt(0), DInt(1)}

TransferGrowthValues == {MAX_GROWTH}

DiscountValues == {0, 10, MAX_DISCOUNT}

ExtraDiscountValues == {0, MAX_DISCOUNT}

PauseHoursValues == {0, 4, MAX_PAUSE_HOURS}

\* ------------------------------------------------------------------------
\* Pricing constants and the expressions of the script
\* ------------------------------------------------------------------------
CREDIT_COST == 2

STORAGE_COST_PER_TB == 40

DATA_TRANSFER_COST_PER_TB == 90

size_credit_mapping ==
    [s \in WarehouseSizes |->
        CASE s = "X-Small" -> 1
          [] s = "Small"   -> 2
          [] s = "Medium"  -> 4
          [] s = "Large"   -> 8
          [] s = "X-Large" -> 16]

\* pct / 100
Pct(pct) == Hundredths(pct)

GEN2_EFFICIENCY == Hundredths(70)

GEN2_PAUSE_EFFICIENCY == Hundredths(90)

\* the scaling discount without its cap
gen2_scaling_discount_Uncapped(num_warehouses) ==
    DSub(DInt(1), IF num_warehouses > 1
                  THEN DMul(DInt(num_warehouses - 1), Hundredths(5))
                  ELSE Zero)

gen2_scaling_discount(num_warehouses) ==
    LET step == Hundredths(5)
        cap  == Hundredths(20)
        discount == IF num_warehouses > 1
                    THEN DMin(DMul(DInt(num_warehouses - 1), step), cap)
                    ELSE Zero
    IN  DSub(DInt(1), discount)

\* lines 63-70: the credits of one baseline month
BaseCredits(n, size, hours, days, gen2) ==
    LET raw == DInt(n * size_credit_mapping[size] * hours * days)
    IN  IF gen2
        THEN DMul(DMul(raw, GEN2_EFFICIENCY), gen2_scaling_discount(n))
        ELSE raw

\* growth counted from month 1 instead of month 0
MonthlyCompute_OffByOne(credits, m, growth) ==
    DMul(DMul(credits, DInt(CREDIT_COST)),
         DAdd(DInt(1), Hundredths((m + 1) * growth)))

\* lines 72 and 112
MonthlyCompute(credits, m, growth) ==
    DMul(DMul(credits, DInt(CREDIT_COST)),
         DAdd(DInt(1), Hundredths(m * growth)))

MonthlyStorage(level) == DMul(level, DInt(STORAGE_COST_PER_TB))

MonthlyTransfer(level) == DMul(level, DInt(DATA_TRANSFER_COST_PER_TB))

\* growth added to the level instead of multiplied into it
GrowLevel_Additive(level, growth) == DAdd(level, Pct(growth))

\* lines 78, 83, 115, 116: level *= (1 + growth / 100)
GrowLevel(level, growth) == DMul(level, DAdd(DInt(1), Pct(growth)))

\* lines 86-88, 120-122: [c * (1 - pct / 100) for c in costs]
ApplyDiscount(costs, pct) ==
    [i \in 1..Len(costs) |-> DMul(costs[i], DSub(DInt(1), Pct(pct)))]

\* the reduced size ignored
OptimizedSizeCredit_Original(size, reduced) == size_credit_mapping[size]

OptimizedSizeCredit(size, reduced) ==
    IF reduced = "Same" THEN size_credit_mapping[size]
    ELSE size_credit_mapping[reduced]

\* the subtraction without max(..., 0)
EffectiveHours_Unclamped(hours, pause) == hours - pause

EffectiveHours(hours, pause) ==
    IF hours - pause > 0 THEN hours - pause ELSE 0

\* lines 102-110: the credits of one optimized month
BaseCreditsOpt(n, size_credit, hours, days, gen2, pause) ==
    LET raw == DInt(n * size_credit * hours * days)
        g2  == DMul(DMul(raw, GEN2_EFFICIENCY), gen2_scaling_discount(n))
    IN  IF gen2
        THEN IF pause > 0 THEN DMul(g2, GEN2_PAUSE_EFFICIENCY) ELSE g2
        ELSE raw

\* the base discount left out of the optimized scenario
TotalDiscountOpt_ExtraOnly(base, extra) == extra

TotalDiscountOpt(base, extra) == base + extra

\* the transfer series left out of the monthly totals
TotalCosts_NoTransfer(compute, storage, transfer) == VecAdd(compute, storage)

TotalCosts(compute, storage, transfer) ==
    VecAdd(VecAdd(compute, storage), transfer)

AnnualSum(costs) == DSum(costs)

\* the operands of the subtraction swapped
TotalSavings_Swapped(baseline, optimized) == DSub(optimized, baseline)

TotalSavings(baseline, optimized) == DSub(baseline, optimized)

\* line 132: the guard of the conditional expression
PctGuard(total) == DLess(Zero, total)

\* ------------------------------------------------------------------------
\* Init: the widget values are chosen; lines 58-60 have run
\* ------------------------------------------------------------------------
Init ==
    /\ use_gen2 \in BOOLEAN
    /\ num_vws \in NumVwsValues
    /\ vw_size \in VwSizeValues
    /\ hours_per_day \in HoursValues
    /\ active_days_per_month \in ActiveDaysValues
    /\ compute_growth \in ComputeGrowthValues
    /\ storage_tb \in StorageTbValues
    /\ storage_growth \in StorageGrowthValues
    /\ data_transfer_tb \in TransferTbValues
    /\ transfer_growth \in TransferGrowthValues
    /\ discount_pct \in DiscountValues
    /\ pause_hours_per_day \in PauseHoursValues
    /\ reduce_vw_size \in ReduceVwSizeValues
    /\ additional_discount \in ExtraDiscountValues
    /\ pc = "baseline"
    /\ month = 0
    /\ compute_costs = <<>>
    /\ storage_costs = <<>>
    /\ transfer_costs = <<>>
    /\ storage_current = storage_tb
    /\ transfer_current = data_transfer_tb
    \* names the script has not bound yet
    /\ base_credits = Zero
    /\ total_costs = <<>>
    /\ total_annual_cost = Zero
    /\ optimized_size_credit = 0
    /\ effective_hours = 0
    /\ base_credits_opt = Zero
    /\ optimized_compute_costs = <<>>
    /\ storage_current_opt = Zero
    /\ transfer_current_opt = Zero
    /\ total_discount_opt = 0
    /\ optimized_storage_costs = <<>>
    /\ optimized_transfer_costs = <<>>
    /\ total_optimized_costs = <<>>
    /\ total_optimized_annual = Zero
    /\ total_savings = Zero
    /\ savings_pct = Quot(Zero, DInt(1))

\* lines 62-83: one iteration of the baseline loop
BaselineMonth ==
    /\ pc = "baseline"
    /\ month < NUM_MONTHS
    /\ base_credits' = BaseCredits(num_vws, vw_size, hours_per_day,
                                   active_days_per_month, use_gen2)
    /\ compute_costs' = Append(compute_costs,
                               MonthlyCompute(base_credits', month, compute_growth))
    /\ storage_costs' = Append(storage_costs, MonthlyStorage(storage_current))
    /\ storage_current' = GrowLevel(storage_current, storage_growth)
    /\ transfer_costs' = Append(transfer_costs, MonthlyTransfer(transfer_current))
    /\ transfer_current' = GrowLevel(transfer_current, transfer_growth)
    /\ month' = month + 1
    /\ pc' = IF month + 1 = NUM_MONTHS THEN "base_discount" ELSE "baseline"
    /\ UNCHANGED <<inputs, baseline_total_vars, optimized_size_credit,
                   optimized_loop_vars, optimized_level_vars,
                   optimized_discount_vars, optimized_total_vars, savings_vars>>

\* lines 86-88
ApplyBaseDiscount ==
    /\ pc = "base_discount"
    /\ compute_costs' = ApplyDiscount(compute_costs, discount_pct)
    /\ storage_costs' = ApplyDiscount(storage_costs, discount_pct)
    /\ transfer_costs' = ApplyDiscount(transfer_costs, discount_pct)
    /\ pc' = "baseline_totals"
    /\ UNCHANGED <<inputs, month, base_credits, storage_current, transfer_current,
                   baseline_total_vars, optimized_size_credit,
                   optimized_loop_vars, optimized_level_vars,
                   optimized_discount_vars, optimized_total_vars, savings_vars>>

\* lines 90-91
BaselineTotals ==
    /\ pc = "baseline_totals"
    /\ total_costs' = TotalCosts(compute_costs, storage_costs, transfer_costs)
    /\ total_annual_cost' = AnnualSum(total_costs')
    /\ pc' = "optimized_size"
    /\ UNCHANGED <<inputs, month, baseline_vars, optimized_size_credit,
                   optimized_loop_vars, optimized_level_vars,
                   optimized_discount_vars, optimized_total_vars, savings_vars>>

\* lines 94-98
OptimizedSetup ==
    /\ pc = "optimized_size"
    /\ optimized_size_credit' = OptimizedSizeCredit(vw_size, reduce_vw_size)
    /\ optimized_compute_costs' = <<>>
    /\ storage_current_opt' = storage_tb
    /\ transfer_current_opt' = data_transfer_tb
    /\ month' = 0
    /\ pc' = "optimized"
    /\ UNCHANGED <<inputs, baseline_vars, baseline_total_vars, effective_hours,
                   base_credits_opt, optimized_discount_vars,
                   optimized_total_vars, savings_vars>>

\* lines 100-116: one iteration of the optimized loop
OptimizedMonth ==
    /\ pc = "optimized"
    /\ month < NUM_MONTHS
    /\ effective_hours' = EffectiveHours(hours_per_day, pause_hours_per_day)
    /\ base_credits_opt' = BaseCreditsOpt(num_vws, optimized_size_credit,
                                          effective_hours', active_days_per_month,
                                          use_gen2, pause_hours_per_day)
    /\ optimized_compute_costs' =
           Append(optimized_compute_costs,
                  MonthlyCompute(base_credits_opt', month, compute_growth))
    /\ storage_current_opt' = GrowLevel(storage_current_opt, storage_growth)
    /\ transfer_current_opt' = GrowLevel(transfer_current_opt, transfer_growth)
    /\ month' = month + 1
    /\ pc' = IF month + 1 = NUM_MONTHS THEN "combined_discount" ELSE "optimized"
    /\ UNCHANGED <<inputs, baseline_vars, baseline_total_vars,
                   optimized_size_credit, optimized_discount_vars,
                   optimized_total_vars, savings_vars>>

\* lines 119-122: the discount is applied to the lists as they are bound now;
\* storage_costs and transfer_costs were rebound by lines 87-88
ApplyCombinedDiscount ==
    /\ pc = "combined_discount"
    /\ total_discount_opt' = TotalDiscountOpt(discount_pct, additional_discount)
    /\ optimized_compute_costs' =
           ApplyDiscount(optimized_compute_costs, total_discount_opt')
    /\ optimized_storage_costs' = ApplyDiscount(storage_costs, total_discount_opt')
    /\ optimized_transfer_costs' = ApplyDiscount(transfer_costs, total_discount_opt')
    /\ pc' = "optimized_totals"
    /\ UNCHANGED <<inputs, month, baseline_vars, baseline_total_vars,
                   optimized_size_credit, effective_hours, base_credits_opt,
                   optimized_level_vars, optimized_total_vars, savings_vars>>

\* lines 124-129
OptimizedTotals ==
    /\ pc = "optimized_totals"
    /\ total_optimized_costs' = TotalCosts(optimized_compute_costs,
                                           optimized_storage_costs,
                                           optimized_transfer_costs)
    /\ total_optimized_annual' = AnnualSum(total_optimized_costs')
    /\ pc' = "savings"
    /\ UNCHANGED <<inputs, month, baseline_vars, baseline_total_vars,
                   optimized_size_credit, optimized_loop_vars,
                   optimized_level_vars, optimized_discount_vars, savings_vars>>

\* lines 131-132; a division by 0 raises ZeroDivisionError and binds nothing
Savings ==
    /\ pc = "savings"
    /\ total_savings' = TotalSavings(total_annual_cost, total_optimized_annual)
    /\ IF PctGuard(total_annual_cost)
       THEN IF total_annual_cost = Zero
            THEN /\ pc' = "ZeroDivisionError"
                 /\ UNCHANGED savings_pct
            ELSE /\ savings_pct' = QuotMul(Quot(total_savings', total_annual_cost),
                                           DInt(100))
                 /\ pc' = "done"
       ELSE /\ savings_pct' = Quot(Zero, DInt(1))
            /\ pc' = "done"
    /\ UNCHANGED <<inputs, month, baseline_vars, baseline_total_vars,
                   optimized_size_credit, optimized_loop_vars,
                   optimized_level_vars, optimized_discount_vars,
                   optimized_total_vars>>

Next ==
    \/ BaselineMonth
    \/ ApplyBaseDiscount
    \/ BaselineTotals
    \/ OptimizedSetup
    \/ OptimizedMonth
    \/ ApplyCombinedDiscount
    \/ OptimizedTotals
    \/ Savings

Spec == Init /\ [][Next]_vars

\* ------------------------------------------------------------------------
\* The documented formulas, computed independently of the script's order
\* ------------------------------------------------------------------------
Months == 0..(NUM_MONTHS - 1)

\* <<1, x, x^2, ..., x^(k-1)>>
RECURSIVE DPowers(_, _)
DPowers(x, k) ==
    IF k = 1 THEN <<DInt(1)>>
    ELSE LET ps == DPowers(x, k - 1) IN Append(ps, DMul(ps[k - 1], x))

OneMinusPct(pct) == Hundredths(100 - pct)

\* storage_tb * 40 * (1 + storage_growth/100)^m for m = 0..11
DocStorage ==
    LET ps == DPowers(Hundredths(100 + storage_growth), NUM_MONTHS)
    IN  [m \in Months |-> DMul(DMul(storage_tb, DInt(40)), ps[m + 1])]

\* transfer_tb * 90 * (1 + transfer_growth/100)^m for m = 0..11
DocTransfer ==
    LET ps == DPowers(Hundredths(100 + transfer_growth), NUM_MONTHS)
    IN  [m \in Months |-> DMul(DMul(data_transfer_tb, DInt(90)), ps[m + 1])]

DocSizeMultiplier(size) ==
    CASE size = "X-Small" -> 1
      [] size = "Small"   -> 2
      [] size = "Medium"  -> 4
      [] size = "Large"   -> 8
      [] size = "X-Large" -> 16

\* f(n) = 1 - min((n-1)*0.05, 0.20), and 1 for n <= 1
DocScaling(n) ==
    IF n <= 1 THEN DInt(1)
    ELSE IF (n - 1) * 5 < 20 THEN Hundredths(100 - (n - 1) * 5)
    ELSE Hundredths(80)

\* warehouses * multiplier * hours * days * 2.00 * (1 + m*g/100)
DocCompute(mult, hours, m) ==
    Hundredths(num_vws * mult * hours * active_days_per_month * 2
               * (100 + m * compute_growth))

DocGen2Credits ==
    DMul(DMul(DInt(num_vws * DocSizeMultiplier(vw_size) * hours_per_day
                   * active_days_per_month),
              Hundredths(70)),
         DocScaling(num_vws))

DocOptimizedMultiplier ==
    IF reduce_vw_size = "Same" THEN DocSizeMultiplier(vw_size)
    ELSE DocSizeMultiplier(reduce_vw_size)

DocOptimizedHours ==
    IF hours_per_day > pause_hours_per_day
    THEN hours_per_day - pause_hours_per_day ELSE 0

DocOptimizedCompute(m) ==
    LET plain == DocCompute(DocOptimizedMultiplier, DocOptimizedHours, m)
        gen2  == DMul(DMul(plain, Hundredths(70)), DocScaling(num_vws))
    IN  IF ~use_gen2 THEN plain
        ELSE IF pause_hours_per_day > 0 THEN DMul(gen2, Hundredths(90))
        ELSE gen2

NonNegative(costs) == \A i \in 1..Len(costs) : ~costs[i].neg

AllLeq(a, b) == \A i \in 1..Len(a) : DLeq(a[i], b[i])

\* ------------------------------------------------------------------------
\* Claims
\* ------------------------------------------------------------------------

\* C1: in every month the baseline storage and transfer values are the
\* undiscounted values times (1 - base_discount/100), and the optimized
\* storage and transfer values are the same undiscounted values times
\* (1 - (base_discount + extra_discount)/100): one combined discount.
C1_OptimizedDiscountedOnce ==
    pc = "done" =>
        LET storage == DocStorage
            transfer == DocTransfer
        IN  \A m \in Months :
                /\ storage_costs[m + 1] =
                       DMul(storage[m], OneMinusPct(discount_pct))
                /\ transfer_costs[m + 1] =
                       DMul(transfer[m], OneMinusPct(discount_pct))
                /\ optimized_storage_costs[m + 1] =
                       DMul(storage[m],
                            OneMinusPct(discount_pct + additional_discount))
                /\ optimized_transfer_costs[m + 1] =
                       DMul(transfer[m],
                            OneMinusPct(discount_pct + additional_discount))

\* C2: for the baseline and for the optimized scenario, the three category
\* subtotals add up to the scenario's annual total, and every monthly total
\* is compute + storage + transfer of that month.
C2_SubtotalsSumToTotal ==
    /\ pc \in {"optimized_size", "done"} =>
        /\ DAdd(DAdd(DSum(compute_costs), DSum(storage_costs)),
                DSum(transfer_costs)) = total_annual_cost
        /\ Len(total_costs) = NUM_MONTHS
        /\ \A m \in Months :
               total_costs[m + 1] =
                   DAdd(DAdd(compute_costs[m + 1], storage_costs[m + 1]),
                        transfer_costs[m + 1])
    /\ pc \in {"savings", "done"} =>
        /\ DAdd(DAdd(DSum(optimized_compute_costs),
                     DSum(optimized_storage_costs)),
                DSum(optimized_transfer_costs)) = total_optimized_annual
        /\ Len(total_optimized_costs) = NUM_MONTHS
        /\ \A m \in Months :
               total_optimized_costs[m + 1] =
                   DAdd(DAdd(optimized_compute_costs[m + 1],
                             optimized_storage_costs[m + 1]),
                        optimized_transfer_costs[m + 1])

C2_Witness ==
    /\ pc = "done"
    /\ discount_pct = 10
    /\ data_transfer_tb # Zero
    /\ total_annual_cost # Zero
    /\ total_optimized_annual # Zero
    /\ total_optimized_annual # total_annual_cost

\* C3: with Gen-2 off the undiscounted baseline compute value of month m is
\* warehouses * multiplier * hours * days * 2.00 * (1 + m*growth/100), that
\* is month 0 times (1 + m*growth/100); 1 X-Small warehouse, 10 hours,
\* 20 days and 0% growth give 400 every month and 4800 in the year.
C3_LinearComputeGrowth ==
    (pc = "base_discount" /\ ~use_gen2) =>
        /\ \A m \in Months :
               /\ compute_costs[m + 1] =
                      DocCompute(DocSizeMultiplier(vw_size), hours_per_day, m)
               /\ compute_costs[m + 1] =
                      DMul(compute_costs[1],
                           Hundredths(100 + m * compute_growth))
        /\ (/\ num_vws = 1 /\ vw_size = "X-Small" /\ hours_per_day = 10
            /\ active_days_per_month = 20 /\ compute_growth = 0) =>
               /\ \A m \in Months : compute_costs[m + 1] = DInt(400)
               /\ DSum(compute_costs) = DInt(4800)

C3_Witness ==
    /\ pc = "base_discount"
    /\ ~use_gen2
    /\ compute_growth = 5
    /\ num_vws = 2
    /\ vw_size = "Medium"
    /\ compute_costs[1] = DInt(3200)
    /\ compute_costs[12] = DInt(4960)

\* C4: the undiscounted storage value of month m is
\* storage_tb * 40 * (1 + storage_growth/100)^m and the transfer value is
\* transfer_tb * 90 * (1 + transfer_growth/100)^m: month 0 uses the
\* configured volume; 5 TB at 2% give 200 and then 204.
C4_CompoundingVolumes ==
    pc = "base_discount" =>
        /\ LET storage == DocStorage
               transfer == DocTransfer
           IN  \A m \in Months :
                   /\ storage_costs[m + 1] = storage[m]
                   /\ transfer_costs[m + 1] = transfer[m]
        /\ (storage_tb = DInt(5) /\ storage_growth = 2) =>
               /\ storage_costs[1] = DInt(200)
               /\ storage_costs[2] = DInt(204)

C4_Witness ==
    /\ pc = "base_discount"
    /\ storage_tb = DInt(5)
    /\ storage_growth = 2
    /\ storage_costs[2] = DInt(204)
    /\ data_transfer_tb = DInt(1)
    /\ transfer_costs[1] = DInt(90)
    /\ transfer_costs[2] = DInt(108)

\* C5: with Gen-2 on the baseline credits are the Gen-2-off credits times
\* 0.70 times f(n) = 1 - min((n-1)*0.05, 0.20); f(n) = 1 for n <= 1, f never
\* increases with n, and f(n) = 0.80 for every n >= 5; 1 X-Small warehouse,
\* 10 hours, 20 days give 140 credits and 280 for the month.
C5_Gen2Credits ==
    /\ (pc \in {"baseline", "base_discount"} /\ use_gen2
        /\ Len(compute_costs) > 0) =>
           /\ base_credits = DocGen2Credits
           /\ (/\ num_vws = 1 /\ vw_size = "X-Small" /\ hours_per_day = 10
               /\ active_days_per_month = 20) =>
                  /\ base_credits = DInt(140)
                  /\ compute_costs[1] = DInt(280)
    \* f depends on n alone: it is examined once per run, before its first use
    /\ (pc = "baseline" /\ month = 0) =>
         \A n \in (-1)..(MaxWarehouses + 4) :
           /\ gen2_scaling_discount(n) = DocScaling(n)
           /\ n <= 1 => gen2_scaling_discount(n) = DInt(1)
           /\ n >= 5 => gen2_scaling_discount(n) = Hundredths(80)
           /\ DLeq(gen2_scaling_discount(n + 1), gen2_scaling_discount(n))

C5_Witness ==
    /\ pc = "baseline"
    /\ use_gen2
    /\ num_vws = 5
    /\ vw_size = "X-Small"
    /\ Len(compute_costs) = 1
    /\ base_credits = DInt(560)
    /\ compute_costs[1] = DInt(1120)

\* C6: the undiscounted optimized compute value of month m is
\* warehouses * M * max(hours - pause, 0) * days * 2.00 * (1 + m*growth/100),
\* M the multiplier of the reduced size, or of the original size for 'Same';
\* with Gen-2 on it is further multiplied by 0.70, by f(warehouses), and by
\* 0.90 exactly when pause > 0.  Pausing at least all hours gives 0.
C6_OptimizedCompute ==
    pc = "combined_discount" =>
        /\ \A m \in Months :
               optimized_compute_costs[m + 1] = DocOptimizedCompute(m)
        /\ pause_hours_per_day >= hours_per_day =>
               \A m \in Months : optimized_compute_costs[m + 1] = Zero

C6_Witness ==
    /\ pc = "combined_discount"
    /\ use_gen2
    /\ num_vws = 5
    /\ vw_size = "Medium"
    /\ reduce_vw_size = "Small"
    /\ pause_hours_per_day = 4
    /\ compute_growth = 0
    /\ effective_hours = 6
    /\ optimized_size_credit = 2
    /\ optimized_compute_costs[12] = Hundredths(120960)

\* C7: with every input inside its documented range, every value of the six
\* series is non-negative, also when the two discounts add up to 100.
C7_NonNegativeSeries ==
    /\ NonNegative(compute_costs)
    /\ NonNegative(storage_costs)
    /\ NonNegative(transfer_costs)
    /\ NonNegative(optimized_compute_costs)
    /\ NonNegative(optimized_storage_costs)
    /\ NonNegative(optimized_transfer_costs)
    /\ pc = "done" =>
           /\ Len(compute_costs) = NUM_MONTHS
           /\ Len(storage_costs) = NUM_MONTHS
           /\ Len(transfer_costs) = NUM_MONTHS
           /\ Len(optimized_compute_costs) = NUM_MONTHS
           /\ Len(optimized_storage_costs) = NUM_MONTHS
           /\ Len(optimized_transfer_costs) = NUM_MONTHS

C7_Witness ==
    /\ pc = "done"
    /\ discount_pct + additional_discount = 100
    /\ pause_hours_per_day > hours_per_day
    /\ compute_costs[12] # Zero
    /\ optimized_compute_costs[12] = Zero
    /\ optimized_storage_costs[12] = Zero

\* C8: savings is the baseline total minus the optimized total; savings_pct
\* is savings / baseline total * 100 when the baseline total is not 0 and 0
\* when it is 0; the division never divides by 0.
C8_Savings ==
    /\ pc # "ZeroDivisionError"
    /\ pc = "done" =>
        /\ DAdd(total_savings, total_optimized_annual) = total_annual_cost
        /\ savings_pct.den # Zero
        /\ total_annual_cost # Zero =>
               DMul(savings_pct.num, total_annual_cost) =
                   DMul(DMul(total_savings, DInt(100)), savings_pct.den)
        /\ total_annual_cost = Zero => savings_pct.num = Zero

C8_Witness ==
    /\ pc = "done"
    /\ total_annual_cost # Zero
    /\ total_savings # Zero
    /\ ~total_savings.neg
    /\ savings_pct.num = DMul(total_savings, DInt(100))
    /\ savings_pct.den = total_annual_cost

\* C10: when the reduced size is 'Same' or its multiplier is not greater
\* than the original size's, the optimized annual total does not exceed the
\* baseline annual total (savings >= 0, savings_pct >= 0) and every
\* optimized monthly value is <= the baseline value of its category and month.
C10_OptimizedNeverDearer ==
    (pc = "done" /\ DocOptimizedMultiplier <= DocSizeMultiplier(vw_size)) =>
        /\ DLeq(total_optimized_annual, total_annual_cost)
        /\ ~total_savings.neg
        /\ (savings_pct.num.neg = savings_pct.den.neg
            \/ savings_pct.num = Zero)
        /\ AllLeq(optimized_compute_costs, compute_costs)
        /\ AllLeq(optimized_storage_costs, storage_costs)
        /\ AllLeq(optimized_transfer_costs, transfer_costs)

C10_Witness ==
    /\ pc = "done"
    /\ vw_size = "Medium"
    /\ reduce_vw_size = "Small"
    /\ pause_hours_per_day = 4
    /\ additional_discount = MAX_DISCOUNT
    /\ DLess(Zero, total_savings)
    /\ DLess(optimized_compute_costs[1], compute_costs[1])
    /\ DLess(optimized_storage_costs[1], storage_costs[1])

====
